---- MODULE Spec2Model ----
(***************************************************************************)
(* Token lifecycle (AuthManager, src/auth.py) and the request dispatcher   *)
(* built on it (PetsSeriesClient, src/api.py; UserManager, src/user.py).   *)
(*                                                                         *)
(* The program is single-threaded asyncio: a coroutine runs until it       *)
(* awaits real I/O (thread pool, network, file).  Every action below is    *)
(* the code that runs between two such suspension points of one caller.    *)
(***************************************************************************)
EXTENDS Integers, FiniteSets, Sequences, TLC

(* ------------------------------ bounds ------------------------------- *)
MaxOps == 2        \* operations started in all
MaxTime == 2       \* the clock stops advancing here
MaxTokens == 3     \* highest token id the identity provider issues
InitNow == 1       \* clock value at construction

Tasks == {"a", "b"}            \* concurrent callers of one client
Kinds == {"op", "init", "user"}

(* ------------------------------ values ------------------------------- *)
\* Python None for an access token / a refresh token.
NoneTok == [id |-> -1, exp |-> -1, jwt |-> "none"]
NoneRT == -1
\* An access token: a JWT whose payload decodes and holds exp and client_id.
Token(id, exp) == [id |-> id, exp |-> exp, jwt |-> "ok"]
\* Access tokens that are not such a JWT: not decodable, or decodable with
\* a payload that lacks exp, or lacks client_id.
Malformed(id) == [id |-> id, exp |-> -1, jwt |-> "malformed"]
NoExp(id) == [id |-> id, exp |-> -1, jwt |-> "noexp"]
NoClientId(id, exp) == [id |-> id, exp |-> exp, jwt |-> "nocid"]
NoSession == 0

SuppliedId == 0                \* id of the pair given to the constructor
StoredId == 1                  \* id of the pair in the initial document
FirstIssued == 2               \* first id the identity provider issues

Absent == [st |-> "absent", at |-> NoneTok, rt |-> NoneRT]
Truncated == [st |-> "empty", at |-> NoneTok, rt |-> NoneRT]
Corrupt == [st |-> "garbage", at |-> NoneTok, rt |-> NoneRT]
Json(at, rt) == [st |-> "json", at |-> at, rt |-> rt]

NoHeaders == [has |-> FALSE, tok |-> NoneTok]
Bearer(at) == [has |-> TRUE, tok |-> at]
NoReq == [sent |-> FALSE, has |-> FALSE, tok |-> NoneTok, cur |-> NoneTok]
NoPair == [at |-> NoneTok, rt |-> NoneRT]
NoCall == [fn |-> "none"]

VARIABLES
    access_token,   \* AuthManager.access_token
    refresh_token,  \* AuthManager.refresh_token
    authSession,    \* AuthManager.session (NoSession, or the number of the session)
    authCreated,    \* ClientSessions created by AuthManager._get_session
    token_file,     \* the credential document on disk
    clientSession,  \* PetsSeriesClient.session
    clientCreated,  \* ClientSessions created by PetsSeriesClient._get_client
    headers,        \* PetsSeriesClient.headers
    now,            \* the clock read by get_current_time
    idpUsed,        \* refresh tokens the identity provider has exchanged
    idpNext,        \* id of the next pair the identity provider issues
    idpReused,      \* the provider has accepted a refresh token a second time
    pc,             \* where each caller's coroutine is suspended
    kind,           \* the operation each caller is running
    ctx,            \* the call the coroutine is suspended in, and that call's caller
    posted,         \* refresh_token in the body of the caller's refresh exchange
    savePair,       \* the tokens dict save_tokens is writing
    req,            \* the caller's resource request: headers sent, token then current
    resp,           \* status of the caller's last refresh exchange ("none": none yet)
    err,            \* the exception the caller's operation raised
    refreshes,      \* refresh exchanges sent by the caller's current operation
    opsLeft,        \* operations that may still be started
    retry,          \* per caller: the refresh token its failed exchange carried and
                    \* left in place, while no tokens have been replaced since
    clientClosed,   \* client ClientSessions on which close() has completed
    authClosed,     \* AuthManager ClientSessions on which close() has completed
    closing,        \* per caller: the session its close() is awaiting session.close() on
    call            \* a call of a function that touches no client state: input, result

vars == <<access_token, refresh_token, authSession, authCreated, token_file,
          clientSession, clientCreated, headers, now, idpUsed, idpNext, idpReused,
          pc, kind, ctx, posted, savePair, req, resp, err, refreshes, opsLeft,
          retry, clientClosed, authClosed, closing, call>>

authVars == <<access_token, refresh_token>>
sessVars == <<authSession, authCreated, clientSession, clientCreated>>
idpVars == <<idpUsed, idpNext, idpReused>>
closeVars == <<clientClosed, authClosed, closing>>

(* --------------------------- pure functions --------------------------- *)
\* utils.get_current_time
get_current_time == now

\* AuthManager.is_token_expired: exp < current_time
is_token_expired(exp, current_time) == exp < current_time

\* AuthManager.get_expiration: the exp claim, or the AuthError raised.
get_expiration(at) ==
    [exp |-> at.exp,
     err |-> CASE at = NoneTok -> "AuthError: Access token is None"
               [] at.jwt = "malformed" -> "AuthError: Error decoding JWT"
               [] at.jwt = "noexp" -> "AuthError: exp not found in token"
               [] OTHER -> "none"]

\* AuthManager.get_client_id: the AuthError raised, if any.
get_client_id(at) ==
    [err |-> CASE at = NoneTok -> "AuthError: Access token is None"
               [] at.jwt = "malformed" -> "AuthError: Error decoding JWT"
               [] at.jwt = "nocid" -> "AuthError: client_id not found in token"
               [] OTHER -> "none"]

\* Expiry claims the provider may put in a token it issues at time n.
ExpChoices(n) == {n - 1, n, n + 1}

(* ---------------------- run-to-suspension results --------------------- *)
\* What one caller's coroutine leaves behind when it next suspends or ends:
\* its own locals and the client's headers.
Cur(t) == [pc |-> pc[t], kind |-> kind[t], ctx |-> ctx[t], headers |-> headers,
           req |-> req[t], posted |-> posted[t], savePair |-> savePair[t],
           resp |-> resp[t], err |-> err[t], refreshes |-> refreshes[t]]

\* The locals of an operation that has not suspended yet.
Fresh(t) == [pc |-> "idle", kind |-> "none", ctx |-> "none", headers |-> headers,
             req |-> NoReq, posted |-> NoneRT, savePair |-> NoPair,
             resp |-> "none", err |-> "none", refreshes |-> 0]

Raise(b, e) == [b EXCEPT !.pc = "raised", !.err = e]

\* session.<verb>(url, headers=self.headers): the headers are read when the
\* request is issued; `at` is the authority's token at that moment.
SendRequest(b, at) ==
    [b EXCEPT !.pc = "req_wait",
              !.req = [sent |-> TRUE, has |-> b.headers.has,
                       tok |-> b.headers.tok, cur |-> at]]

\* Sessions on which session.close() has been called by a close() that is
\* still awaiting it: they are closed, and still referenced.
ClientClosing == {closing[u] : u \in {v \in Tasks : pc[v] = "close_client"}}
AuthClosing == {closing[u] : u \in {v \in Tasks : pc[v] = "close_auth"}}

\* PetsSeriesClient._get_client, then the request of the operation; a
\* request on a closed session raises RuntimeError.
get_client(b, at) ==
    IF clientSession = NoSession
    THEN [b EXCEPT !.pc = "ssl_client"]
    ELSE IF clientSession \in ClientClosing
         THEN Raise(b, "RuntimeError: Session is closed")
         ELSE SendRequest(b, at)

\* Resource operations: "op" stands for any of them called with arguments it
\* accepts, "update_meal_noid" for update_meal called with a meal whose id
\* is None or empty.
OpKinds == {"op", "update_meal_noid"}

\* A variant of the operation that checks no argument.
operation_unchecked(b, at) == get_client(b, at)

\* The operation's code between its guard and its request: update_meal
\* raises ValueError if not meal.id; then _get_client and the request.
operation(b, at) ==
    IF b.kind = "update_meal_noid"
    THEN Raise(b, "ValueError: Meal ID must be provided")
    ELSE get_client(b, at)

\* A variant of refresh_access_token that posts the exchange without the
\* client id when get_client_id fails.
refresh_access_token_anyway(b, at, rt, caller) ==
    IF at = NoneTok
    THEN Raise(b, get_client_id(at).err)
    ELSE IF authSession = NoSession
         THEN [b EXCEPT !.ctx = caller, !.posted = rt, !.pc = "ssl_auth"]
    ELSE IF authSession \in AuthClosing
         THEN Raise(b, "AuthError: refresh")
         ELSE [b EXCEPT !.ctx = caller, !.posted = rt, !.pc = "refresh_wait",
                        !.refreshes = @ + 1]

\* AuthManager.refresh_access_token up to its first suspension: get_client_id,
\* the body (which captures refresh_token), _get_session, session.post (on a
\* closed session it raises RuntimeError, which becomes AuthError).
refresh_access_token(b, at, rt, caller) ==
    IF get_client_id(at).err # "none"
    THEN Raise(b, get_client_id(at).err)
    ELSE IF authSession = NoSession
         THEN [b EXCEPT !.ctx = caller, !.posted = rt, !.pc = "ssl_auth"]
    ELSE IF authSession \in AuthClosing
         THEN Raise(b, "AuthError: refresh")
         ELSE [b EXCEPT !.ctx = caller, !.posted = rt, !.pc = "refresh_wait",
                        !.refreshes = @ + 1]

\* What the caller of get_access_token does with the token it returns:
\* _refresh_headers builds self.headers (then initialize returns, a resource
\* operation goes on to its request); UserManager.get_user_info builds its
\* own headers and sends its request on the session it was given.
UseToken(b, at, k) ==
    CASE k = "user" ->
            [b EXCEPT !.pc = "req_wait",
                      !.req = [sent |-> TRUE, has |-> TRUE, tok |-> at, cur |-> at]]
      [] k = "init" -> [b EXCEPT !.headers = Bearer(at), !.pc = "done"]
      [] OTHER -> operation([b EXCEPT !.headers = Bearer(at)], at)

\* AuthManager.get_access_token after its load_tokens branch.
get_access_token_loaded(b, at, rt, k) ==
    IF get_expiration(at).err # "none"
    THEN Raise(b, get_expiration(at).err)
    ELSE IF is_token_expired(get_expiration(at).exp, get_current_time)
         THEN refresh_access_token(b, at, rt, "refresh_gat")
         ELSE UseToken(b, at, k)

\* AuthManager.get_access_token (called by _refresh_headers and UserManager).
get_access_token(b, at, rt, k) ==
    IF at = NoneTok
    THEN [b EXCEPT !.pc = "load_wait", !.ctx = "load_gat"]
    ELSE get_access_token_loaded(b, at, rt, k)

\* A variant of the guard that rebuilds the headers on every call.
ensure_token_valid_eager(b, at, rt) ==
    IF get_expiration(at).err # "none"
    THEN Raise(b, get_expiration(at).err)
    ELSE IF is_token_expired(get_expiration(at).exp, get_current_time)
         THEN refresh_access_token(b, at, rt, "refresh_guard")
         ELSE get_access_token(b, at, rt, "op")

\* PetsSeriesClient._ensure_token_valid, then the operation's own code.
ensure_token_valid(b, at, rt) ==
    IF get_expiration(at).err # "none"
    THEN Raise(b, get_expiration(at).err)
    ELSE IF is_token_expired(get_expiration(at).exp, get_current_time)
         THEN refresh_access_token(b, at, rt, "refresh_guard")
         ELSE operation(b, at)

\* PetsSeriesClient.initialize after load_tokens returned.
initialize_loaded(b, at, rt) ==
    IF get_expiration(at).err # "none"
    THEN Raise(b, get_expiration(at).err)
    ELSE IF is_token_expired(get_expiration(at).exp, get_current_time)
         THEN refresh_access_token(b, at, rt, "refresh_guard")
         ELSE get_access_token(b, at, rt, "init")

\* The code after the call the coroutine was suspended in returns normally.
Resume(b, at, rt, k) ==
    CASE b.ctx = "refresh_guard" -> get_access_token(b, at, rt, k)
      [] b.ctx = "refresh_gat" -> UseToken(b, at, k)
      [] b.ctx = "load_init" -> initialize_loaded(b, at, rt)
      [] OTHER -> get_access_token_loaded(b, at, rt, k)

\* The caller's coroutine is left as r says; the locals of an operation that
\* has ended are gone, but for the exception it raised.
Apply(t, r) ==
    LET over == r.pc \in {"done", "raised"}
        q == IF over
             THEN [Fresh(t) EXCEPT !.pc = r.pc, !.err = r.err,
                                   !.resp = IF r.pc = "raised" THEN r.resp ELSE "none"]
             ELSE r
    IN  /\ pc' = [pc EXCEPT ![t] = q.pc]
        /\ kind' = [kind EXCEPT ![t] = q.kind]
        /\ ctx' = [ctx EXCEPT ![t] = q.ctx]
        /\ headers' = r.headers
        /\ req' = [req EXCEPT ![t] = q.req]
        /\ posted' = [posted EXCEPT ![t] = q.posted]
        /\ savePair' = [savePair EXCEPT ![t] = q.savePair]
        /\ resp' = [resp EXCEPT ![t] = q.resp]
        /\ err' = [err EXCEPT ![t] = q.err]
        /\ refreshes' = [refreshes EXCEPT ![t] = q.refreshes]

(* -------------------------------- Init -------------------------------- *)
\* AuthManager.__init__ / PetsSeriesClient.__init__ with the token arguments
\* `pairs` allows, and the credential document one of `docs`.
ConstructedWith(pairs, docs) ==
    /\ \E p \in pairs : access_token = p.at /\ refresh_token = p.rt
    /\ token_file \in docs
    /\ authSession = NoSession /\ authCreated = 0
    /\ clientSession = NoSession /\ clientCreated = 0
    /\ headers = NoHeaders
    /\ now = InitNow
    /\ idpUsed = {} /\ idpNext = FirstIssued /\ idpReused = FALSE
    /\ pc = [t \in Tasks |-> "idle"]
    /\ kind = [t \in Tasks |-> "none"]
    /\ ctx = [t \in Tasks |-> "none"]
    /\ posted = [t \in Tasks |-> NoneRT]
    /\ savePair = [t \in Tasks |-> NoPair]
    /\ req = [t \in Tasks |-> NoReq]
    /\ resp = [t \in Tasks |-> "none"]
    /\ err = [t \in Tasks |-> "none"]
    /\ refreshes = [t \in Tasks |-> 0]
    /\ opsLeft = MaxOps
    /\ retry = [t \in Tasks |-> NoneRT]
    /\ clientClosed = {} /\ authClosed = {}
    /\ closing = [t \in Tasks |-> NoSession]

\* The constructor is given both tokens or none; the credential document
\* exists, with a pair, or not.
SuppliedPairs ==
    {NoPair} \cup {[at |-> Token(SuppliedId, e), rt |-> SuppliedId] :
                      e \in ExpChoices(InitNow)}
StoredDocs ==
    {Absent} \cup {Json(Token(StoredId, e), StoredId) : e \in ExpChoices(InitNow)}
Constructed == ConstructedWith(SuppliedPairs, StoredDocs)

Init == Constructed /\ call = NoCall

taskVars == <<pc, kind, ctx, headers, req, posted, savePair, resp, err, refreshes>>

(* ------------------------------- actions ------------------------------ *)
\* A caller starts an operation: a resource operation of the client
\* (get_homes, ...), initialize(), or UserManager.get_user_info on the shared
\* AuthManager.  It runs to its first suspension.
StartOp(t, k) ==
    /\ pc[t] \in {"idle", "done", "raised"}
    /\ opsLeft > 0
    /\ opsLeft' = opsLeft - 1
    /\ LET b == [Fresh(t) EXCEPT !.kind = k]
       IN  Apply(t, CASE k \in OpKinds ->
                          ensure_token_valid(b, access_token, refresh_token)
                      [] k = "init" ->
                          [b EXCEPT !.pc = "load_wait", !.ctx = "load_init"]
                      [] OTHER ->
                          get_access_token(b, access_token, refresh_token, k))
    /\ UNCHANGED <<authVars, sessVars, idpVars, token_file, now, retry,
                   closeVars, call>>

\* AuthManager._get_session resumes after _create_ssl_context: it creates a
\* session and the refresh exchange is posted.
SslAuthDone(t) ==
    /\ pc[t] = "ssl_auth"
    /\ authCreated' = authCreated + 1
    /\ authSession' = authCreated + 1
    /\ Apply(t, [Cur(t) EXCEPT !.pc = "refresh_wait", !.refreshes = @ + 1])
    /\ UNCHANGED <<authVars, idpVars, token_file, now, retry, clientSession,
                   clientCreated, opsLeft, closeVars, call>>

\* The exchange fails: a non-200 status (400 for a refresh token the provider
\* has already exchanged and no longer accepts, 500 otherwise), or a network
\* error or timeout.
RefreshStatuses(t) ==
    {"500", "neterr"} \cup
    (IF posted[t] = NoneRT \/ posted[t] \in idpUsed THEN {"400"} ELSE {})

\* refresh_access_token, response.status == 200: both tokens are replaced
\* from the body and save_tokens is called, which captures the pair and
\* suspends opening the file.
refresh_succeeded(t, at, rt) ==
    /\ access_token' = at
    /\ refresh_token' = rt
    /\ Apply(t, [Cur(t) EXCEPT !.pc = "save_open", !.resp = "200",
                               !.savePair = [at |-> at, rt |-> rt]])

\* Variants of the failure branch: one that drops the tokens it could not
\* refresh, one that logs the failure and lets the operation go on.
refresh_failed_drop(t, s) ==
    /\ access_token' = NoneTok
    /\ refresh_token' = NoneRT
    /\ Apply(t, [Raise(Cur(t), "AuthError: refresh") EXCEPT !.resp = s])
refresh_failed_swallow(t, s) ==
    /\ UNCHANGED authVars
    /\ Apply(t, get_client([Cur(t) EXCEPT !.resp = s], access_token))

\* refresh_access_token, any other status or a network failure: AuthError.
refresh_failed(t, s) ==
    /\ UNCHANGED authVars
    /\ Apply(t, [Raise(Cur(t), "AuthError: refresh") EXCEPT !.resp = s])

\* The token endpoint answers 200 with a new pair.  A provider that
\* invalidates exchanged refresh tokens never does so for one in idpUsed;
\* another provider may.
RefreshOk(t) ==
    /\ pc[t] = "refresh_wait"
    /\ idpNext <= MaxTokens
    /\ posted[t] # NoneRT
    /\ idpReused' = (idpReused \/ posted[t] \in idpUsed)
    /\ \E e \in ExpChoices(now) :
          refresh_succeeded(t, Token(idpNext, e), idpNext)
    /\ idpUsed' = idpUsed \cup {posted[t]}
    /\ idpNext' = idpNext + 1
    /\ retry' = [u \in Tasks |-> NoneRT]
    /\ UNCHANGED <<sessVars, token_file, now, opsLeft, closeVars, call>>

RefreshFail(t) ==
    /\ pc[t] = "refresh_wait"
    /\ \E s \in RefreshStatuses(t) : refresh_failed(t, s)
    /\ retry' = [retry EXCEPT ![t] = IF posted[t] = refresh_token
                                      THEN posted[t] ELSE NoneRT]
    /\ UNCHANGED <<sessVars, idpVars, token_file, now, opsLeft, closeVars,
                   call>>

\* save_tokens: aiofiles.open(path, "w") truncates the document.
SaveOpen(t) ==
    /\ pc[t] = "save_open"
    /\ token_file' = Truncated
    /\ Apply(t, [Cur(t) EXCEPT !.pc = "save_write"])
    /\ UNCHANGED <<authVars, sessVars, idpVars, now, opsLeft, retry,
                   closeVars, call>>

\* save_tokens: the dict captured before the open is written; save_tokens
\* returns and its caller (refresh_access_token or load_tokens) returns.
SaveWrite(t) ==
    /\ pc[t] = "save_write"
    /\ token_file' = Json(savePair[t].at, savePair[t].rt)
    /\ Apply(t, Resume(Cur(t), access_token, refresh_token, kind[t]))
    /\ UNCHANGED <<authVars, sessVars, idpVars, now, opsLeft, retry,
                   closeVars, call>>

\* save_tokens fails (open or write raises): AuthError.
SaveFail(t) ==
    /\ pc[t] \in {"save_open", "save_write"}
    /\ Apply(t, Raise(Cur(t), "AuthError: save"))
    /\ UNCHANGED <<authVars, sessVars, idpVars, token_file, now, opsLeft,
                   retry, closeVars, call>>

\* Variants of load_tokens' error branches: one that forgets the tokens on
\* an unreadable document, one that creates the document whatever it holds.
load_invalid_reset(t) ==
    /\ access_token' = NoneTok
    /\ refresh_token' = NoneRT
    /\ UNCHANGED retry
    /\ Apply(t, Raise(Cur(t), "AuthError: invalid JSON"))
load_missing_save(t) ==
    /\ UNCHANGED <<authVars, retry>>
    /\ Apply(t, [Cur(t) EXCEPT !.pc = "save_open",
                               !.savePair = [at |-> access_token,
                                             rt |-> refresh_token]])

\* A variant that takes a missing document for an error whatever was given.
load_missing_raise(t) ==
    /\ UNCHANGED <<authVars, retry>>
    /\ Apply(t, Raise(Cur(t), "AuthError: no tokens"))

\* load_tokens, json.JSONDecodeError: AuthError.
load_invalid(t) ==
    /\ UNCHANGED <<authVars, retry>>
    /\ Apply(t, Raise(Cur(t), "AuthError: invalid JSON"))

\* load_tokens, FileNotFoundError: AuthError unless both tokens were given,
\* which are then saved.
load_missing(t) ==
    /\ UNCHANGED <<authVars, retry>>
    /\ IF access_token = NoneTok \/ refresh_token = NoneRT
       THEN Apply(t, Raise(Cur(t), "AuthError: no tokens"))
       ELSE Apply(t, [Cur(t) EXCEPT !.pc = "save_open",
                                    !.savePair = [at |-> access_token,
                                                  rt |-> refresh_token]])

\* load_tokens resumes with the document read (or FileNotFoundError).
LoadDone(t) ==
    /\ pc[t] = "load_wait"
    /\ CASE token_file.st = "json" ->
              /\ access_token' = token_file.at
              /\ refresh_token' = token_file.rt
              /\ retry' = [u \in Tasks |-> NoneRT]
              /\ Apply(t, Resume(Cur(t), token_file.at, token_file.rt, kind[t]))
         [] token_file.st = "absent" -> load_missing(t)
         [] OTHER -> load_invalid(t)
    /\ UNCHANGED <<sessVars, idpVars, token_file, now, opsLeft, closeVars,
                   call>>

\* PetsSeriesClient._get_client resumes after create_ssl_context: it creates
\* a session, and the operation issues its request with self.headers.
SslClientDone(t) ==
    /\ pc[t] = "ssl_client"
    /\ clientCreated' = clientCreated + 1
    /\ clientSession' = clientCreated + 1
    /\ Apply(t, SendRequest(Cur(t), access_token))
    /\ UNCHANGED <<authVars, authSession, authCreated, idpVars, token_file,
                   now, opsLeft, retry, closeVars, call>>

\* The resource response arrives: 2xx, or a status raise_for_status raises on.
ReqDone(t) ==
    /\ pc[t] = "req_wait"
    /\ \E ok \in BOOLEAN :
          Apply(t, IF ok THEN [Cur(t) EXCEPT !.pc = "done"]
                   ELSE Raise(Cur(t), "ClientResponseError"))
    /\ UNCHANGED <<authVars, sessVars, idpVars, token_file, now, opsLeft,
                   retry, closeVars, call>>

\* Time passes.
Tick ==
    /\ now < MaxTime
    /\ now' = now + 1
    /\ UNCHANGED <<authVars, sessVars, idpVars, token_file, taskVars,
                   opsLeft, retry, closeVars, call>>

Next ==
    \/ \E t \in Tasks, k \in Kinds : StartOp(t, k)
    \/ \E t \in Tasks : SslAuthDone(t)
    \/ \E t \in Tasks : RefreshOk(t)
    \/ \E t \in Tasks : RefreshFail(t)
    \/ \E t \in Tasks : SaveOpen(t)
    \/ \E t \in Tasks : SaveWrite(t)
    \/ \E t \in Tasks : SaveFail(t)
    \/ \E t \in Tasks : LoadDone(t)
    \/ \E t \in Tasks : SslClientDone(t)
    \/ \E t \in Tasks : ReqDone(t)
    \/ Tick

Spec == Init /\ [][Next]_vars

(* ------------------------------- claims ------------------------------- *)
Startable == {"idle", "done", "raised"}
InFlight == {t \in Tasks : pc[t] = "refresh_wait"}
\* The step is caller t starting a resource operation that suspends.
StartsOp(t) == pc[t] \in Startable /\ kind'[t] = "op"
\* The step is caller t's refresh exchange ending without a 200.
ExchangeFails(t) ==
    pc[t] = "refresh_wait" /\ pc'[t] # "refresh_wait" /\ resp'[t] # "200"

\* C1: single-flight refresh.  At no time are two refresh exchanges in
\* flight, and two operations running at the same time never both send a
\* refresh exchange for the same refresh token.
C1_SingleFlightRefresh ==
    /\ Cardinality(InFlight) <= 1
    /\ \A t, u \in Tasks :
          t # u /\ refreshes[t] > 0 /\ refreshes[u] > 0 => posted[t] # posted[u]

\* C2: with a provider that invalidates a refresh token once exchanged (it
\* has never accepted one a second time), no operation fails because its
\* refresh exchange was rejected (status 400 for an exchanged refresh token).
C2_NoRefreshErrorUnderRotation ==
    ~idpReused => \A t \in Tasks : ~(pc[t] = "raised" /\ resp[t] = "400")

\* C3: expiry boundary.  A resource operation's guard starts a refresh
\* exactly when exp <= now: it does for exp = now, it does not for exp = now+1.
C3_ExpiredIffExpAtMostNow ==
    [][\A t \in Tasks :
          StartsOp(t) /\ access_token # NoneTok =>
              (pc'[t] \in {"ssl_auth", "refresh_wait"} <=> access_token.exp <= now)]_vars

\* C4: every resource request a client operation sends carries an
\* Authorization: Bearer header.
C4_BearerOnEveryRequest ==
    \A t \in Tasks : pc[t] = "req_wait" /\ kind[t] = "op" => req[t].has

\* C5: a refresh exchange that ends with a non-200 status or a network
\* failure makes refresh_access_token raise AuthError, and the call leaves
\* access_token, refresh_token and the credential document as they were.
C5_FailedRefreshKeepsTokens ==
    [][\A t \in Tasks :
          /\ ExchangeFails(t) =>
                /\ pc'[t] = "raised"
                /\ err'[t] = "AuthError: refresh"
                /\ UNCHANGED <<access_token, refresh_token, token_file>>
          /\ pc[t] = "ssl_auth" /\ pc'[t] # "ssl_auth" =>
                UNCHANGED <<access_token, refresh_token, token_file>>]_vars
\* A refresh exchange has failed, with each kind of failure.
C5_Witness ==
    /\ \E t \in Tasks : pc[t] = "raised" /\ resp[t] = "neterr"
    /\ access_token # NoneTok

\* C6: when the exchange returned 200 and refresh_access_token returns, the
\* in-memory tokens are those of the response body and the credential
\* document holds that same pair.
RefreshReturns(t) ==
    /\ pc[t] = "save_write" /\ ctx[t] \in {"refresh_guard", "refresh_gat"}
    /\ pc'[t] # "save_write" /\ err'[t] # "AuthError: save"
C6_RefreshedPairInMemoryAndStore ==
    [][\A t \in Tasks :
          RefreshReturns(t) =>
              /\ access_token' = savePair[t].at
              /\ refresh_token' = savePair[t].rt
              /\ token_file' = Json(savePair[t].at, savePair[t].rt)]_vars

\* C7: whenever a client operation sends a resource request with a bearer
\* header, the token in the header is the authority's current access token.
C7_HeaderTokenIsCurrent ==
    \A t \in Tasks :
        pc[t] = "req_wait" /\ kind[t] = "op" /\ req[t].has => req[t].tok = req[t].cur

\* C8: the token guard called with an access token that is not expired sends
\* no refresh exchange and leaves both session handles, the cached headers,
\* the in-memory tokens and the credential document unchanged.
C8_ValidGuardChangesNothing ==
    [][\A t \in Tasks :
          StartsOp(t) /\ access_token # NoneTok /\ ~(access_token.exp < now) =>
              /\ pc'[t] \in {"ssl_client", "req_wait"}
              /\ refreshes'[t] = 0
              /\ UNCHANGED <<clientSession, authSession, headers, access_token,
                             refresh_token, token_file>>]_vars
\* A resource operation passed the guard without a refresh and sent its request.
C8_Witness ==
    \E t \in Tasks :
        /\ kind[t] = "op" /\ pc[t] = "req_wait" /\ refreshes[t] = 0
        /\ ~(req[t].cur.exp < now)

\* C9: a resource operation on a client whose tokens are not loaded loads
\* them from the credential store in its guard; it fails for lack of an
\* access token only if there is no credential document.
C9_GuardLoadsTokens ==
    \A t \in Tasks :
        pc[t] = "raised" /\ err[t] = "AuthError: Access token is None" =>
            token_file.st = "absent"

\* C10: a resource request is sent only after the guard completed; a failed
\* refresh exchange makes the operation raise without sending its request
\* and leaves the refresh token unchanged; and as long as no tokens were
\* replaced since, a later operation of that caller does not get past its
\* guard without sending the refresh exchange again, with that same token.
C10_State ==
    \A t \in Tasks :
        /\ req[t].sent /\ kind[t] = "op" => resp[t] \in {"none", "200"}
        /\ retry[t] # NoneRT =>
              /\ refresh_token = retry[t]
              /\ pc[t] \notin {"ssl_client", "req_wait", "done"}
              /\ pc[t] \in {"ssl_auth", "refresh_wait"} => posted[t] = retry[t]
C10_Step ==
    \A t \in Tasks :
        ExchangeFails(t) =>
            /\ pc'[t] = "raised" /\ ~req'[t].sent
            /\ refresh_token' = refresh_token
C10_GuardBeforeRequest == []C10_State /\ [][C10_Step]_vars
\* A caller whose refresh exchange failed has sent it again in a later operation.
C10_Witness ==
    \E t \in Tasks :
        retry[t] # NoneRT /\ pc[t] = "refresh_wait" /\ kind[t] = "op"

\* C11: save_tokens is atomic with respect to crashes.  Whatever the moment
\* the process stops at, the credential document on disk is a complete
\* document (the previous one or the new one), never an empty or partly
\* written one; "absent" is the state before the first save.
C11_SaveIsAtomic == token_file.st \in {"absent", "json"}

\* C14: the client's connection handle is created at most once, also when
\* several operations are in _get_client at the same time: no second
\* ClientSession is created and the one created is the one referenced.
C14_ClientSessionCreatedOnce ==
    /\ clientCreated <= 1
    /\ clientCreated = 1 => clientSession = 1

(* ---------------- resource operations: response handling -------------- *)
\* What each resource operation does with the response to its request.
\* The response is the input: its status, whether it carries a JSON body
\* with every field the operation reads ("complete"), a JSON body that lacks
\* one ("incomplete") or no JSON body ("none"), and a Location header or not.
GetOps == {"get_user_info", "get_consumer", "get_homes", "get_meals",
           "get_devices", "get_mode_devices", "get_events", "get_event"}
BoolOps == {"set_meal_enabled", "delete_meal", "update_device_settings"}
ResourceOps == GetOps \cup BoolOps \cup {"update_meal", "create_meal"}
Statuses == {200, 201, 204, 304, 403, 500}
Bodies == {"complete", "incomplete", "none"}

NoOutcome == [kind |-> "pending", val |-> "none", status |-> 0]
Return(v) == [kind |-> "return", val |-> v, status |-> 0]
\* aiohttp.ClientResponseError carries the status of the response.
ClientResponseError(status) ==
    [kind |-> "raise", val |-> "ClientResponseError", status |-> status]
OtherError(e) == [kind |-> "raise", val |-> e, status |-> 0]

\* response.raise_for_status() raises for a status of 400 and above.
raises_for_status(status) == status >= 400

\* await response.json(), then the record built from data[...]:
\* the value the operation returns, or the error raised on the way.
Decode(body, v) ==
    CASE body = "complete" -> Return(v)
      [] body = "incomplete" -> OtherError("KeyError")
      [] OTHER -> OtherError("ContentTypeError")

\* get_user_info, get_consumer, get_homes, get_meals, get_devices,
\* get_mode_devices, get_events, get_event.
get_resource(status, body) ==
    IF raises_for_status(status) THEN ClientResponseError(status)
    ELSE Decode(body, "record")

\* update_meal: a Meal from the body on 200; otherwise raise_for_status(),
\* and the function ends without a return statement.
update_meal(status, body) ==
    IF status = 200 THEN Decode(body, "record")
    ELSE IF raises_for_status(status) THEN ClientResponseError(status)
    ELSE Return("None")

\* create_meal: on 201 the id is the last path segment of the Location
\* header (urlparse(None).path is bytes, and bytes.split("/") raises).
create_meal(status, location) ==
    IF status = 201
    THEN IF location THEN Return("record") ELSE OtherError("TypeError")
    ELSE IF raises_for_status(status) THEN ClientResponseError(status)
    ELSE Return("None")

\* set_meal_enabled (enable_meal, disable_meal) and delete_meal: True on 204;
\* otherwise raise_for_status(), and the function ends without a return.
set_meal_enabled(status) ==
    IF status = 204 THEN Return("True")
    ELSE IF raises_for_status(status) THEN ClientResponseError(status)
    ELSE Return("None")

delete_meal(status) ==
    IF status = 204 THEN Return("True")
    ELSE IF raises_for_status(status) THEN ClientResponseError(status)
    ELSE Return("None")

\* update_device_settings: True on 204; otherwise raise_for_status(), and
\* return False after the try block.
update_device_settings(status) ==
    IF status = 204 THEN Return("True")
    ELSE IF raises_for_status(status) THEN ClientResponseError(status)
    ELSE Return("False")

Outcome(op, status, body, location) ==
    CASE op \in GetOps -> get_resource(status, body)
      [] op = "update_meal" -> update_meal(status, body)
      [] op = "create_meal" -> create_meal(status, location)
      [] op = "set_meal_enabled" -> set_meal_enabled(status)
      [] op = "delete_meal" -> delete_meal(status)
      [] OTHER -> update_device_settings(status)

\* Every operation with every response.
InitResponses ==
    /\ ConstructedWith({NoPair}, {Absent})
    /\ call \in [fn : {"response"}, op : ResourceOps, status : Statuses,
                 body : Bodies, location : BOOLEAN, out : {NoOutcome}]

\* The response arrives and the operation returns or raises.
Respond ==
    /\ call.fn = "response" /\ call.out = NoOutcome
    /\ call' = [call EXCEPT
                  !.out = Outcome(call.op, call.status, call.body, call.location)]
    /\ UNCHANGED <<authVars, sessVars, idpVars, token_file, taskVars, now,
                   opsLeft, retry, closeVars>>

NextResponses == Respond

SpecResponses == InitResponses /\ [][NextResponses]_vars

\* C16: for every resource operation and every response status outside
\* 200..299, the operation raises an error that carries that status; it does
\* not return a value.
C16_Non2xxRaisesWithStatus ==
    call.fn = "response" /\ call.out # NoOutcome
        /\ (call.status < 200 \/ call.status > 299) =>
            /\ call.out.kind = "raise"
            /\ call.out.status = call.status

\* C17: set_meal_enabled, delete_meal and update_device_settings return a
\* boolean or raise: True exactly when the status is 204, and for any other
\* status False or an error, never None.
C17_BooleanMutationsReturnBool ==
    call.fn = "response" /\ call.out # NoOutcome /\ call.op \in BoolOps =>
        /\ call.out.kind = "return" => call.out.val \in {"True", "False"}
        /\ call.out = Return("True") <=> call.status = 204

(* ------------------ credential document: text round trip -------------- *)
\* save_tokens writes json.dumps({"access_token": ..., "refresh_token": ...})
\* and load_tokens reads the text back with json.loads and .get.  Token
\* strings are sequences of characters; the text is a sequence of characters
\* too (insignificant white space left out).
MaxTokenLen == 2
Chars == {"n", "quote", "bslash", "nl"}
Strings == UNION {[1..k -> Chars] : k \in 1..MaxTokenLen}
NoneStr == <<"None">>

\* A variant of the encoder that writes every character as it is.
EscapeRaw(c) == <<c>>

\* json.dumps of one character of a string.
Escape(c) ==
    CASE c = "quote" -> <<"bslash", "quote">>
      [] c = "bslash" -> <<"bslash", "bslash">>
      [] c = "nl" -> <<"bslash", "n">>
      [] OTHER -> <<c>>

RECURSIVE EscapeAll(_)
EscapeAll(str) ==
    IF str = <<>> THEN <<>> ELSE Escape(Head(str)) \o EscapeAll(Tail(str))

\* json.dumps of a string, and of None.
DumpString(str) ==
    IF str = NoneStr THEN <<"null">>
    ELSE <<"quote">> \o EscapeAll(str) \o <<"quote">>

\* json.dumps(tokens)
dumps(at, rt) ==
    <<"{">> \o DumpString(<<"access_token">>) \o <<":">> \o DumpString(at)
       \o <<",">> \o DumpString(<<"refresh_token">>) \o <<":">>
       \o DumpString(rt) \o <<"}">>

\* json.loads of an escape sequence.
Unescape(c) == IF c = "n" THEN "nl" ELSE c

ParseError == [ok |-> FALSE, val |-> <<>>, next |-> 0]

\* json.loads inside a string, from position j up to the closing quote.
RECURSIVE ScanString(_, _, _)
ScanString(text, j, acc) ==
    IF j > Len(text) THEN ParseError
    ELSE IF text[j] = "quote" THEN [ok |-> TRUE, val |-> acc, next |-> j + 1]
    ELSE IF text[j] = "nl" THEN ParseError
    ELSE IF text[j] = "bslash"
         THEN IF j + 1 > Len(text) THEN ParseError
              ELSE ScanString(text, j + 2, Append(acc, Unescape(text[j + 1])))
         ELSE ScanString(text, j + 1, Append(acc, text[j]))

\* json.loads of a value: a string or null.
ParseValue(text, i) ==
    IF i > Len(text) THEN ParseError
    ELSE IF text[i] = "null" THEN [ok |-> TRUE, val |-> NoneStr, next |-> i + 1]
    ELSE IF text[i] = "quote" THEN ScanString(text, i + 1, <<>>)
    ELSE ParseError

\* json.loads of the members of an object, from position i: the pairs read.
RECURSIVE ParseMembers(_, _, _)
ParseMembers(text, i, pairs) ==
    LET k == IF i <= Len(text) /\ text[i] = "quote"
             THEN ScanString(text, i + 1, <<>>) ELSE ParseError
        colon == k.ok /\ k.next <= Len(text) /\ text[k.next] = ":"
        v == IF colon THEN ParseValue(text, k.next + 1) ELSE ParseError
        more == Append(pairs, [key |-> k.val, val |-> v.val])
    IN  IF ~v.ok \/ v.next > Len(text) THEN [ok |-> FALSE, pairs |-> <<>>]
        ELSE IF text[v.next] = "}" /\ v.next = Len(text)
             THEN [ok |-> TRUE, pairs |-> more]
        ELSE IF text[v.next] = ","
             THEN ParseMembers(text, v.next + 1, more)
             ELSE [ok |-> FALSE, pairs |-> <<>>]

\* json.loads(token_content)
loads(text) ==
    IF Len(text) >= 2 /\ text[1] = "{"
    THEN ParseMembers(text, 2, <<>>)
    ELSE [ok |-> FALSE, pairs |-> <<>>]

\* token_content.get(key): the value of the last member with that key.
RECURSIVE Get(_, _)
Get(pairs, key) ==
    IF pairs = <<>> THEN NoneStr
    ELSE IF pairs[Len(pairs)].key = key THEN pairs[Len(pairs)].val
    ELSE Get(SubSeq(pairs, 1, Len(pairs) - 1), key)

\* A client holding a pair of non-empty token strings is about to save it.
InitRoundTrip ==
    /\ ConstructedWith({NoPair}, {Absent})
    /\ \E at \in Strings, rt \in Strings :
          call = [fn |-> "roundtrip", phase |-> "start", at |-> at, rt |-> rt,
                  saved |-> [at |-> at, rt |-> rt], text |-> <<>>]

\* save_tokens() without arguments.
RoundTripSave ==
    /\ call.fn = "roundtrip" /\ call.phase = "start"
    /\ call' = [call EXCEPT !.phase = "saved", !.text = dumps(call.at, call.rt)]
    /\ UNCHANGED <<authVars, sessVars, idpVars, token_file, taskVars, now,
                   opsLeft, retry, closeVars>>

\* load_tokens() on the document written.
RoundTripLoad ==
    /\ call.fn = "roundtrip" /\ call.phase = "saved"
    /\ LET d == loads(call.text)
       IN  call' = IF d.ok
                   THEN [call EXCEPT !.phase = "loaded",
                                     !.at = Get(d.pairs, <<"access_token">>),
                                     !.rt = Get(d.pairs, <<"refresh_token">>)]
                   ELSE [call EXCEPT !.phase = "AuthError"]
    /\ UNCHANGED <<authVars, sessVars, idpVars, token_file, taskVars, now,
                   opsLeft, retry, closeVars>>

NextRoundTrip == RoundTripSave \/ RoundTripLoad

SpecRoundTrip == InitRoundTrip /\ [][NextRoundTrip]_vars

\* C12: round-trip persistence.  For every pair of non-empty token strings,
\* save_tokens followed by load_tokens succeeds and leaves the in-memory
\* access_token and refresh_token equal to the pair that was saved.
C12_RoundTrip ==
    call.fn = "roundtrip" =>
        /\ call.phase # "AuthError"
        /\ call.phase = "loaded" => call.at = call.saved.at /\ call.rt = call.saved.rt
\* A pair whose strings need escaping has been saved and loaded back.
C12_Witness ==
    /\ call.fn = "roundtrip" /\ call.phase = "loaded"
    /\ call.saved.at = <<"quote", "bslash">> /\ call.saved.rt = <<"nl", "n">>

(* ------------------- access tokens that do not decode ------------------ *)
\* The client as in Spec, but the access token given to the constructor or
\* held by the credential document may also be a string that does not
\* decode, or a JWT that lacks the exp or the client_id claim.
BadTokens(id) ==
    {Malformed(id), NoExp(id)}
        \cup {NoClientId(id, e) : e \in ExpChoices(InitNow)}
InitDecode ==
    /\ ConstructedWith(
          SuppliedPairs \cup {[at |-> a, rt |-> SuppliedId] : a \in BadTokens(SuppliedId)},
          StoredDocs \cup {Json(a, StoredId) : a \in BadTokens(StoredId)})
    /\ call = NoCall

SpecDecode == InitDecode /\ [][Next]_vars

DecodeErrors == {"AuthError: Error decoding JWT",
                 "AuthError: exp not found in token",
                 "AuthError: client_id not found in token"}
\* The step is the start of an operation that reads the token at once
\* (a resource operation or get_user_info; initialize loads first).
StartsWithToken ==
    opsLeft' < opsLeft /\ \A t \in Tasks : pc'[t] # "load_wait" \/ pc[t] = "load_wait"
\* Caller t enters refresh_access_token's exchange in this step.
EntersExchange(t) ==
    pc[t] \notin {"ssl_auth", "refresh_wait"} /\ pc'[t] \in {"ssl_auth", "refresh_wait"}

\* C18: with an access token that does not decode or lacks the exp claim the
\* guard raises an authentication error, and with one that lacks client_id
\* the refresh does; in both cases no refresh exchange is sent (at once or
\* as a retry) and the tokens in memory and in the document stay as they are.
C18_BadTokenFailsBeforeExchange ==
    [][/\ \A t \in Tasks : EntersExchange(t) => access_token'.jwt = "ok"
       /\ StartsWithToken
            /\ \/ access_token.jwt \in {"malformed", "noexp"}
               \/ access_token.jwt = "nocid" /\ access_token.exp < now
          => /\ \E t \in Tasks : pc'[t] = "raised" /\ err'[t] \in DecodeErrors
             /\ \A t \in Tasks : pc'[t] = pc[t] \/ pc'[t] = "raised"
             /\ UNCHANGED <<access_token, refresh_token, token_file, idpVars>>
       /\ \A t \in Tasks :
             pc[t] = "load_wait" /\ pc'[t] # "load_wait" /\ token_file.st = "json"
                /\ access_token'.jwt \in {"malformed", "noexp"}
             => pc'[t] = "raised" /\ err'[t] \in DecodeErrors
                   /\ token_file' = token_file]_vars
\* One operation failed on a token without client_id, another on a token
\* that does not decode, and no exchange was ever sent.
C18_Witness ==
    /\ \E t \in Tasks :
          pc[t] = "raised" /\ err[t] = "AuthError: client_id not found in token"
    /\ \E t \in Tasks : pc[t] = "raised" /\ err[t] = "AuthError: Error decoding JWT"
    /\ idpUsed = {} /\ authCreated = 0

(* ---------------- credential inputs that are not a pair --------------- *)
\* The client as in Spec, but the constructor may be given one token without
\* the other, the credential document may be text that is not JSON or a JSON
\* object that lacks one of the two keys, and the body of a 200 refresh
\* response may lack one of the two keys.
AnyPairs ==
    {[at |-> a, rt |-> r] :
        a \in {NoneTok} \cup {Token(SuppliedId, e) : e \in ExpChoices(InitNow)},
        r \in {NoneRT, SuppliedId}}
AnyDocs ==
    {Absent, Corrupt}
        \cup {Json(a, r) :
                 a \in {NoneTok} \cup {Token(StoredId, e) : e \in ExpChoices(InitNow)},
                 r \in {NoneRT, StoredId}}
InitStore == ConstructedWith(AnyPairs, AnyDocs) /\ call = NoCall

\* The token endpoint answers 200 with a body that has only one of the keys:
\* response_json.get gives None for the other.
RefreshOkPartial(t) ==
    /\ pc[t] = "refresh_wait"
    /\ idpNext <= MaxTokens
    /\ posted[t] # NoneRT
    /\ idpReused' = (idpReused \/ posted[t] \in idpUsed)
    /\ \E e \in ExpChoices(now) :
          \/ refresh_succeeded(t, Token(idpNext, e), NoneRT)
          \/ refresh_succeeded(t, NoneTok, idpNext)
    /\ idpUsed' = idpUsed \cup {posted[t]}
    /\ idpNext' = idpNext + 1
    /\ retry' = [u \in Tasks |-> NoneRT]
    /\ UNCHANGED <<sessVars, token_file, now, opsLeft, closeVars, call>>

NextStore == Next \/ \E t \in Tasks : RefreshOkPartial(t)

SpecStore == InitStore /\ [][NextStore]_vars

\* C13: the credential pair is all-or-nothing.  Every step that changes the
\* in-memory tokens (load, refresh) leaves both present or both absent, and
\* every document written holds both tokens or none.
BothOrNone(at, rt) == (at = NoneTok) <=> (rt = NoneRT)
C13_PairAllOrNothing ==
    [][/\ <<access_token, refresh_token>>' # <<access_token, refresh_token>>
            => BothOrNone(access_token', refresh_token')
       /\ token_file' # token_file /\ token_file'.st = "json"
            => BothOrNone(token_file'.at, token_file'.rt)]_vars

\* Caller t's load_tokens ends in this step.
LoadEnds(t) == pc[t] = "load_wait" /\ pc'[t] # "load_wait"

\* C19: load_tokens on a document that is not valid JSON raises an error,
\* sends no network request and leaves the in-memory tokens and the
\* document unchanged.
C19_CorruptDocumentRaises ==
    [][\A t \in Tasks :
          LoadEnds(t) /\ token_file.st \notin {"json", "absent"} =>
              /\ pc'[t] = "raised" /\ err'[t] = "AuthError: invalid JSON"
              /\ ~req'[t].sent /\ refreshes'[t] = 0
              /\ UNCHANGED <<access_token, refresh_token, token_file, idpVars,
                             sessVars>>]_vars
\* load_tokens has failed on a document that is not JSON, tokens in memory.
C19_Witness ==
    /\ \E t \in Tasks : pc[t] = "raised" /\ err[t] = "AuthError: invalid JSON"
    /\ token_file = Corrupt
    /\ access_token # NoneTok /\ refresh_token # NoneRT

\* C20: load_tokens with no credential document and without both tokens
\* given to the constructor raises an error, creates no document and sends
\* no network request; initialize() propagates the error and builds no
\* headers.
C20_NoCredentialsRaises ==
    [][\A t \in Tasks :
          LoadEnds(t) /\ token_file.st = "absent"
             /\ (access_token = NoneTok \/ refresh_token = NoneRT) =>
              /\ pc'[t] = "raised" /\ err'[t] = "AuthError: no tokens"
              /\ ~req'[t].sent /\ refreshes'[t] = 0
              /\ UNCHANGED <<access_token, refresh_token, token_file, idpVars,
                             sessVars, headers>>]_vars
\* initialize() has failed for a client given an access token only.
C20_Witness ==
    /\ \E t \in Tasks : pc[t] = "raised" /\ err[t] = "AuthError: no tokens"
    /\ token_file = Absent /\ headers = NoHeaders
    /\ access_token # NoneTok /\ refresh_token = NoneRT

(* -------------------------------- close -------------------------------- *)
\* AuthManager.close up to its suspension in session.close(), or to its end.
auth_close(b) ==
    IF authSession # NoSession
    THEN [b EXCEPT !.pc = "close_auth"]
    ELSE [b EXCEPT !.pc = "done"]

\* A caller calls PetsSeriesClient.close(): session.close() on the client's
\* session if there is one, else AuthManager.close().
CloseStart(t) ==
    /\ pc[t] \in {"idle", "done", "raised"}
    /\ LET b == [Fresh(t) EXCEPT !.kind = "close"]
       IN  IF clientSession # NoSession
           THEN /\ Apply(t, [b EXCEPT !.pc = "close_client"])
                /\ closing' = [closing EXCEPT ![t] = clientSession]
           ELSE /\ Apply(t, auth_close(b))
                /\ closing' = [closing EXCEPT ![t] = authSession]
    /\ UNCHANGED <<authVars, sessVars, idpVars, token_file, now, opsLeft,
                   retry, clientClosed, authClosed, call>>

\* PetsSeriesClient.close resumes: the session it awaited is closed,
\* self.session = None, then AuthManager.close().
CloseClientDone(t) ==
    /\ pc[t] = "close_client"
    /\ clientClosed' = clientClosed \cup {closing[t]}
    /\ clientSession' = NoSession
    /\ Apply(t, auth_close(Cur(t)))
    /\ closing' = [closing EXCEPT ![t] = authSession]
    /\ UNCHANGED <<authVars, authSession, authCreated, clientCreated, idpVars,
                   token_file, now, opsLeft, retry, authClosed, call>>

\* AuthManager.close resumes: the session it awaited is closed,
\* self.session = None, and close() returns.
CloseAuthDone(t) ==
    /\ pc[t] = "close_auth"
    /\ authClosed' = authClosed \cup {closing[t]}
    /\ authSession' = NoSession
    /\ Apply(t, [Cur(t) EXCEPT !.pc = "done"])
    /\ closing' = [closing EXCEPT ![t] = NoSession]
    /\ UNCHANGED <<authVars, clientSession, clientCreated, authCreated, idpVars,
                   token_file, now, opsLeft, retry, clientClosed, call>>

NextClose ==
    \/ Next
    \/ \E t \in Tasks : CloseStart(t)
    \/ \E t \in Tasks : CloseClientDone(t)
    \/ \E t \in Tasks : CloseAuthDone(t)

SpecClose == Init /\ [][NextClose]_vars

\* C15: every connection handle the client or its AuthManager created is
\* closed.  When no operation is running and close() has left the client
\* without a session, every session ever created has been closed.
C15_EverySessionClosed ==
    /\ \A t \in Tasks : pc[t] \in {"idle", "done", "raised"}
    /\ clientSession = NoSession /\ authSession = NoSession
    => /\ clientClosed = 1..clientCreated
       /\ authClosed = 1..authCreated

(* ------------------- load_tokens without a document ------------------- *)
\* Caller t's load_tokens returns from the save_tokens it called.
LoadSaveReturns(t) ==
    /\ pc[t] = "save_write" /\ ctx[t] \in {"load_init", "load_gat"}
    /\ pc'[t] # "save_write" /\ err'[t] # "AuthError: save"

\* C21: load_tokens with no credential document and both tokens given to the
\* constructor does not raise and leaves the in-memory tokens as given; it
\* saves that pair, which is the document when load_tokens returns; and a
\* load_tokens on a document reads exactly the document's pair.
C21_SuppliedPairPersisted ==
    [][\A t \in Tasks :
          /\ LoadEnds(t) /\ token_file.st = "absent"
                /\ access_token # NoneTok /\ refresh_token # NoneRT =>
                /\ pc'[t] = "save_open"
                /\ savePair'[t] = [at |-> access_token, rt |-> refresh_token]
                /\ UNCHANGED <<access_token, refresh_token>>
          /\ LoadSaveReturns(t) =>
                /\ token_file' = Json(savePair[t].at, savePair[t].rt)
                /\ UNCHANGED <<access_token, refresh_token>>
          /\ LoadEnds(t) /\ token_file.st = "json" =>
                /\ access_token' = token_file.at
                /\ refresh_token' = token_file.rt]_vars
\* initialize() has ended on a client constructed with tokens and without a
\* document: the document is the given pair, and so are the current tokens.
C21_Witness ==
    /\ token_file.st = "json" /\ token_file.at.id = SuppliedId
    /\ token_file.rt = SuppliedId
    /\ access_token = token_file.at /\ refresh_token = token_file.rt
    /\ \E t \in Tasks : pc[t] = "done" /\ headers = Bearer(token_file.at)

(* ------------------- operations with a rejected argument --------------- *)
\* The client as in Spec, where callers also call update_meal with a meal
\* that has no id.
NextArgs ==
    \/ Next
    \/ \E t \in Tasks : StartOp(t, "update_meal_noid")

SpecArgs == Init /\ [][NextArgs]_vars

\* Caller t, running a resource operation, takes the step.
OpSteps(t) ==
    /\ kind[t] \in OpKinds \/ kind'[t] \in OpKinds
    /\ pc'[t] # pc[t] \/ opsLeft' # opsLeft

\* C22: no step of a resource operation changes the authority's access token
\* or refresh token, except the step in which its refresh exchange returns
\* 200: a valid token, a failed refresh, a non-2xx resource response and an
\* argument error leave the pair as it was.
C22_OnlyRefreshChangesTokens ==
    [][\A t \in Tasks :
          OpSteps(t) /\ ~(pc[t] = "refresh_wait" /\ resp'[t] = "200") =>
              UNCHANGED <<access_token, refresh_token>>]_vars
\* One resource operation failed on its argument, another on its refresh
\* exchange, no exchange has succeeded and the tokens are in place.
C22_Witness ==
    /\ \E t \in Tasks :
          pc[t] = "raised" /\ err[t] = "ValueError: Meal ID must be provided"
    /\ \E t \in Tasks : pc[t] = "raised" /\ err[t] = "AuthError: refresh"
    /\ idpUsed = {} /\ access_token # NoneTok /\ refresh_token # NoneRT

(* -------------------- create_meal: the Location header ----------------- *)
\* create_meal on a 201 response.  The Location header is a text (a sequence
\* of characters; a name such as "host" stands for its characters) or None.
\* The texts are the URLs of every shape: absolute or relative, a path of
\* MaxSegments segments at most (a segment may be empty, as after a trailing
\* slash), with or without parameters, a query and a fragment.
MaxSegments == 2
SegmentNames == {<<>>, <<"meals">>, <<"M123">>}
Paths == UNION {[1..k -> SegmentNames] : k \in 1..MaxSegments}
\* (without a host the path does not begin with "//", which would read as
\* the start of a host: RFC 3986, 3.3)
Urls ==
    {u \in [abs : BOOLEAN, segs : Paths, params : BOOLEAN, query : BOOLEAN,
             fragment : BOOLEAN] :
        u.abs \/ Len(u.segs) = 1 \/ u.segs[1] # <<>>}

RECURSIVE PathText(_)
PathText(segs) ==
    IF segs = <<>> THEN <<>> ELSE <<"/">> \o Head(segs) \o PathText(Tail(segs))

\* The text of a URL: scheme://host/path;params?query#fragment
UrlText(u) ==
    (IF u.abs THEN <<"https", ":", "/", "/", "host">> ELSE <<>>)
        \o PathText(u.segs)
        \o (IF u.params THEN <<";", "v">> ELSE <<>>)
        \o (IF u.query THEN <<"?", "next", "=", "/", "home">> ELSE <<>>)
        \o (IF u.fragment THEN <<"#", "top", "/", "x">> ELSE <<>>)

\* str.find(c, start) and str.rfind(c), 1-based; 0 when there is none.
Find(text, c, start) ==
    LET hits == {j \in start..Len(text) : text[j] = c}
    IN  IF hits = {} THEN 0 ELSE CHOOSE j \in hits : \A k \in hits : j <= k
RFind(text, c) ==
    LET hits == {j \in 1..Len(text) : text[j] = c}
    IN  IF hits = {} THEN 0 ELSE CHOOSE j \in hits : \A k \in hits : j >= k
Before(text, i) == IF i = 0 THEN text ELSE SubSeq(text, 1, i - 1)

\* urllib.parse.urlsplit(url).path followed by urlparse's _splitparams: the
\* scheme up to ":", the netloc after "//" up to the first of "/", "?", "#",
\* the fragment from the first "#", the query from the first "?", the
\* parameters from the first ";" of the last segment.
urlparse_path(text) ==
    LET colon == Find(text, ":", 1)
        scheme == colon = 2 /\ text[1] = "https"
        r1 == IF scheme THEN SubSeq(text, colon + 1, Len(text)) ELSE text
        netloc == Len(r1) >= 2 /\ r1[1] = "/" /\ r1[2] = "/"
        delims == {j \in 3..Len(r1) : r1[j] \in {"/", "?", "#"}}
        delim == IF delims = {} THEN Len(r1) + 1
                 ELSE CHOOSE j \in delims : \A k \in delims : j <= k
        r2 == IF netloc THEN SubSeq(r1, delim, Len(r1)) ELSE r1
        r3 == Before(r2, Find(r2, "#", 1))
        r4 == Before(r3, Find(r3, "?", 1))
        semi == IF Find(r4, "/", 1) # 0 THEN Find(r4, ";", RFind(r4, "/"))
                ELSE Find(r4, ";", 1)
    IN  Before(r4, semi)

\* path.split("/")[-1]
LastSegment(path) == SubSeq(path, RFind(path, "/") + 1, Len(path))

\* A variant that takes the first segment of the path for the id.
meal_id_first(location) ==
    LET path == urlparse_path(location)
        rest == SubSeq(path, 2, Len(path))
    IN  Before(rest, Find(rest, "/", 1))

\* meal_id = urllib.parse.urlparse(location).path.split("/")[-1]
meal_id(location) == LastSegment(urlparse_path(location))

NoMeal == [kind |-> "pending", id |-> <<>>, url |-> <<>>, enabled |-> FALSE]

\* create_meal, response.status == 201: the Meal built from the Location
\* header and the arguments.  urlparse(None) gives bytes, and bytes.split("/")
\* raises TypeError, which the handler logs and raises again.
create_meal_created(location) ==
    IF location = NoneStr
    THEN [NoMeal EXCEPT !.kind = "TypeError"]
    ELSE [kind |-> "return", id |-> meal_id(location), url |-> location,
          enabled |-> TRUE]

\* create_meal has received 201: a URL in the Location header, an empty
\* Location header, or none.
InitLocation ==
    /\ ConstructedWith({NoPair}, {Absent})
    /\ \/ \E u \in Urls :
             call = [fn |-> "create_meal", isurl |-> TRUE, u |-> u,
                     location |-> UrlText(u), out |-> NoMeal]
       \/ \E l \in {NoneStr, <<>>} :
             call = [fn |-> "create_meal", isurl |-> FALSE,
                     u |-> [abs |-> FALSE, segs |-> <<>>, params |-> FALSE,
                            query |-> FALSE, fragment |-> FALSE],
                     location |-> l, out |-> NoMeal]

\* The branch runs to its return statement or to the error.
MealCreated ==
    /\ call.fn = "create_meal" /\ call.out = NoMeal
    /\ call' = [call EXCEPT !.out = create_meal_created(call.location)]
    /\ UNCHANGED <<authVars, sessVars, idpVars, token_file, taskVars, now,
                   opsLeft, retry, closeVars>>

NextLocation == MealCreated

SpecLocation == InitLocation /\ [][NextLocation]_vars

\* C23: create_meal, on a 201 response whose Location header is a URL,
\* returns a Meal whose id is the last segment of the URL's path (M123 for
\* https://host/meals/M123) and whose url is the Location value.
C23_IdIsLastPathSegment ==
    call.fn = "create_meal" /\ call.isurl /\ call.out # NoMeal =>
        /\ call.out.kind = "return"
        /\ call.out.id = call.u.segs[Len(call.u.segs)]
        /\ call.out.url = call.location
\* The Meal for Location https://host/meals/M123?next=/home#top/x has id M123.
C23_Witness ==
    /\ call.fn = "create_meal" /\ call.out.kind = "return"
    /\ call.location = <<"https", ":", "/", "/", "host", "/", "meals", "/", "M123",
                         "?", "next", "=", "/", "home", "#", "top", "/", "x">>
    /\ call.out.id = <<"M123">>

\* C24: create_meal, on a 201 response without a Location header, does not
\* raise: the caller receives a Meal.
C24_MissingLocationReturnsMeal ==
    call.fn = "create_meal" /\ call.location = NoneStr /\ call.out # NoMeal =>
        call.out.kind = "return"

(* --------------------------- settings toggles -------------------------- *)
\* toggle_device_power and toggle_motion_notifications.  The input is the
\* answer to get_mode_devices (its status, whether the device is in it, the
\* device's settings) and the status of the answer to the PATCH.  A setting
\* is {"value": v}; has = FALSE stands for a setting without the "value" key.
ToggleOps == {"toggle_device_power", "toggle_motion_notifications"}
SettingKeys == {"device_active", "push_notification_motion"}
Setting(v) == [has |-> TRUE, value |-> v]
SettingNoValue == [has |-> FALSE, value |-> FALSE]
DeviceSettings ==
    UNION {[D -> {Setting(TRUE), Setting(FALSE), SettingNoValue}] :
              D \in SUBSET SettingKeys}
ToggledKey(op) ==
    IF op = "toggle_device_power" THEN "device_active"
    ELSE "push_notification_motion"

\* get_settings: {key: value["value"] for key, value in md.settings.items()}
Simplified(settings) == [k \in DOMAIN settings |-> settings[k].value]

\* A variant whose default for a missing key is True.
GetSettingDefaultTrue(current, key) ==
    IF key \in DOMAIN current THEN current[key] ELSE TRUE

\* current_settings.get(key, False)
GetSetting(current, key) == IF key \in DOMAIN current THEN current[key] ELSE FALSE

\* A variant that sends every current setting back with the one negated.
toggle_settings_all(current, key) ==
    [k \in DOMAIN current \cup {key} |->
        [value |-> IF k = key THEN ~GetSetting(current, key) ELSE current[k]]]

\* The settings argument of update_device_settings in the toggles:
\* {key: {"value": not current_settings.get(key, False)}}
toggle_settings(current, key) == key :> [value |-> ~GetSetting(current, key)]

\* payload = {"settings": settings}
Payload(settings) == [settings |-> settings]

NoSettings == [k \in {} |-> FALSE]

InitToggle ==
    /\ ConstructedWith({NoPair}, {Absent})
    /\ call \in [fn : {"toggle"}, op : ToggleOps, getstatus : {200, 500},
                 found : BOOLEAN, settings : DeviceSettings,
                 status : Statuses, phase : {"start"}, current : {NoSettings},
                 patches : {<<>>}, out : {NoOutcome}]

\* get_settings: get_mode_devices raises on a failing status; ValueError if
\* the device is not among the mode devices, which the toggle catches to
\* return False; KeyError for a setting without "value".
ToggleRead ==
    /\ call.fn = "toggle" /\ call.phase = "start"
    /\ call' =
         IF get_resource(call.getstatus, "complete").kind = "raise"
         THEN [call EXCEPT !.phase = "done",
                           !.out = get_resource(call.getstatus, "complete")]
         ELSE IF ~call.found
         THEN [call EXCEPT !.phase = "done", !.out = Return("False")]
         ELSE IF \E k \in DOMAIN call.settings : ~call.settings[k].has
         THEN [call EXCEPT !.phase = "done", !.out = OtherError("KeyError")]
         ELSE [call EXCEPT !.phase = "read",
                           !.current = Simplified(call.settings)]
    /\ UNCHANGED <<authVars, sessVars, idpVars, token_file, taskVars, now,
                   opsLeft, retry, closeVars>>

\* update_device_settings sends its PATCH.
TogglePatch ==
    /\ call.fn = "toggle" /\ call.phase = "read"
    /\ call' = [call EXCEPT
                  !.phase = "patched",
                  !.patches = Append(@, Payload(toggle_settings(
                                            call.current, ToggledKey(call.op))))]
    /\ UNCHANGED <<authVars, sessVars, idpVars, token_file, taskVars, now,
                   opsLeft, retry, closeVars>>

\* The answer to the PATCH arrives; the toggle returns what
\* update_device_settings returns.
ToggleRespond ==
    /\ call.fn = "toggle" /\ call.phase = "patched"
    /\ call' = [call EXCEPT !.phase = "done",
                            !.out = update_device_settings(call.status)]
    /\ UNCHANGED <<authVars, sessVars, idpVars, token_file, taskVars, now,
                   opsLeft, retry, closeVars>>

NextToggle == ToggleRead \/ TogglePatch \/ ToggleRespond

SpecToggle == InitToggle /\ [][NextToggle]_vars

\* The device is known and device_active, like every setting, has a value.
HasPowerSetting ==
    /\ call.getstatus = 200 /\ call.found
    /\ "device_active" \in DOMAIN call.settings
    /\ \A k \in DOMAIN call.settings : call.settings[k].has

\* C25: toggle_device_power reads the device's flattened settings and sends
\* exactly one PATCH, whose body is {settings: {device_active: {value: v}}}
\* with v the negation of the current device_active value and no other key.
C25_TogglePatchesNegation ==
    call.fn = "toggle" /\ call.op = "toggle_device_power" /\ HasPowerSetting =>
        /\ call.phase = "start" => call.patches = <<>>
        /\ call.phase # "start" =>
              /\ call.phase # "done" \/ call.out.val # "KeyError"
              /\ \A k \in DOMAIN call.settings :
                    call.current[k] = call.settings[k].value
        /\ call.phase \in {"patched", "done"} =>
              call.patches =
                 <<[settings |->
                      [k \in {"device_active"} |->
                          [value |-> ~call.settings["device_active"].value]]]>>
\* The toggle of a device that is on and has another setting has sent
\* {settings: {device_active: {value: false}}} and returned.
C25_Witness ==
    /\ call.fn = "toggle" /\ call.op = "toggle_device_power"
    /\ call.phase = "done" /\ call.out = Return("True")
    /\ call.settings = [k \in SettingKeys |-> Setting(TRUE)]
    /\ call.patches =
          <<[settings |-> [k \in {"device_active"} |-> [value |-> FALSE]]]>>

(* ------------------------------ parse_event ---------------------------- *)
\* An event payload is a dict: a function from the keys it has to values.
\* python None is the string "None".
KnownTags == {"motion_detected", "meal_dispensed", "meal_upcoming",
              "food_level_low", "meal_enabled", "filter_replacement_due",
              "food_outlet_stuck", "device_offline", "device_online"}
EventClass(tag) ==
    CASE tag = "motion_detected" -> "MotionEvent"
      [] tag = "meal_dispensed" -> "MealDispensedEvent"
      [] tag = "meal_upcoming" -> "MealUpcomingEvent"
      [] tag = "food_level_low" -> "FoodLevelLowEvent"
      [] tag = "meal_enabled" -> "MealEnabledEvent"
      [] tag = "filter_replacement_due" -> "FilterReplacementDueEvent"
      [] tag = "food_outlet_stuck" -> "FoodOutletStuckEvent"
      [] tag = "device_offline" -> "DeviceOfflineEvent"
      [] OTHER -> "DeviceOnlineEvent"

\* The attributes of Event, and those each subclass adds.
EventAttrs == {"id", "type", "source", "time", "url"}
DeviceAttrs == {"cluster_id", "metadata", "device_id", "device_name",
                "product_ctn", "device_external_id"}
ClassAttrs(cls) ==
    EventAttrs \cup DeviceAttrs \cup
    CASE cls = "MotionEvent" -> {"thumbnail_key", "thumbnail_url"}
      [] cls \in {"MealDispensedEvent", "MealUpcomingEvent"} ->
            {"meal_name", "meal_url", "meal_amount"}
      [] cls = "MealEnabledEvent" ->
            {"meal_amount", "meal_url", "meal_time", "meal_repeat_days"}
      [] OTHER -> {}

\* The payload key each attribute is read from.
WireKey(attr) ==
    CASE attr = "cluster_id" -> "clusterId"
      [] attr = "thumbnail_key" -> "thumbnailKey"
      [] attr = "thumbnail_url" -> "thumbnailUrl"
      [] attr = "device_id" -> "deviceId"
      [] attr = "device_name" -> "deviceName"
      [] attr = "product_ctn" -> "productCtn"
      [] attr = "device_external_id" -> "deviceExternalId"
      [] attr = "meal_name" -> "mealName"
      [] attr = "meal_url" -> "mealUrl"
      [] attr = "meal_amount" -> "mealAmount"
      [] attr = "meal_time" -> "mealTime"
      [] attr = "meal_repeat_days" -> "mealRepeatDays"
      [] OTHER -> attr

\* event.get(key)
EventGet(event, key) == IF key \in DOMAIN event THEN event[key] ELSE "None"

NoEvent == [kind |-> "pending", cls |-> "none", fields |-> [a \in {} |-> "None"]]

\* A variant whose default arm rejects the payload.
parse_event_strict(event) ==
    LET tag == EventGet(event, "type")
    IN  IF tag \in KnownTags
        THEN [kind |-> "return", cls |-> EventClass(tag),
              fields |-> [a \in ClassAttrs(EventClass(tag)) |->
                             IF a = "type" THEN tag
                             ELSE EventGet(event, WireKey(a))]]
        ELSE [NoEvent EXCEPT !.kind = "ValueError"]

\* PetsSeriesClient.parse_event: match on event.get("type"); a known tag
\* gives its class, every field read with .get; any other value gives Event,
\* its fields read with event[...], which raises KeyError on a missing key.
parse_event(event) ==
    LET tag == EventGet(event, "type")
    IN  IF tag \in KnownTags
        THEN [kind |-> "return", cls |-> EventClass(tag),
              fields |-> [a \in ClassAttrs(EventClass(tag)) |->
                             IF a = "type" THEN tag
                             ELSE EventGet(event, WireKey(a))]]
        ELSE IF {"id", "source", "time", "url"} \subseteq DOMAIN event
        THEN [kind |-> "return", cls |-> "Event",
              fields |-> [a \in EventAttrs |->
                             IF a = "type" THEN tag ELSE event[a]]]
        ELSE [NoEvent EXCEPT !.kind = "KeyError"]

\* Payloads: any subset of these keys, with these values; the type, when
\* there is one, is a known tag or a tag the client does not know.
PayloadKeys == {"id", "source", "time", "url", "deviceId", "mealName"}
SampleValue(key) ==
    CASE key = "id" -> "e1"
      [] key = "source" -> "feeder"
      [] key = "time" -> "t0"
      [] key = "url" -> "/events/e1"
      [] key = "deviceId" -> "d1"
      [] OTHER -> "lunch"
EventPayloads ==
    {[k \in D |-> SampleValue(k)] : D \in SUBSET PayloadKeys}
    \cup {[k \in D \cup {"type"} |-> IF k = "type" THEN tag ELSE SampleValue(k)] :
             D \in SUBSET PayloadKeys, tag \in KnownTags \cup {"something_new"}}

InitEvent ==
    /\ ConstructedWith({NoPair}, {Absent})
    /\ call \in [fn : {"parse_event"}, event : EventPayloads, out : {NoEvent}]

ParseEvent ==
    /\ call.fn = "parse_event" /\ call.out = NoEvent
    /\ call' = [call EXCEPT !.out = parse_event(call.event)]
    /\ UNCHANGED <<authVars, sessVars, idpVars, token_file, taskVars, now,
                   opsLeft, retry, closeVars>>

NextEvent == ParseEvent

SpecEvent == InitEvent /\ [][NextEvent]_vars

\* C26: parse_event on a payload whose type is not a known tag and which has
\* id, source, time and url returns the generic Event, whose fields are
\* those four values and the unknown type, and does not raise.
C26_UnknownTypeGivesEvent ==
    /\ call.fn = "parse_event" /\ call.out # NoEvent
    /\ "type" \in DOMAIN call.event /\ call.event["type"] \notin KnownTags
    /\ {"id", "source", "time", "url"} \subseteq DOMAIN call.event
    => /\ call.out.kind = "return" /\ call.out.cls = "Event"
       /\ call.out.fields = [a \in {"id", "type", "source", "time", "url"} |->
                                call.event[a]]
\* {type: something_new, id, source, time, url, deviceId} has been parsed.
C26_Witness ==
    /\ call.fn = "parse_event" /\ call.out.kind = "return"
    /\ DOMAIN call.event = {"type", "id", "source", "time", "url", "deviceId"}
    /\ call.event["type"] = "something_new"
    /\ call.out.fields["id"] = "e1" /\ call.out.fields["type"] = "something_new"

(* --------------------------- close and the store ----------------------- *)
\* Caller t's close() returns in this step.
CloseReturns(t) ==
    /\ pc'[t] = "done" /\ opsLeft' = opsLeft
    /\ pc[t] \in {"close_client", "close_auth", "idle", "raised"}

\* C27: close() saves the tokens.  When close() returns on a client that
\* holds tokens, the credential document holds the in-memory access token
\* and refresh token.
C27_CloseSavesTokens ==
    [][\A t \in Tasks :
          CloseReturns(t) /\ access_token' # NoneTok =>
              token_file' = Json(access_token', refresh_token')]_vars

(* ------------------------------ initialize ----------------------------- *)
\* Caller t's initialize() returns normally in this step.
InitializeReturns(t) == kind[t] = "init" /\ pc[t] # "done" /\ pc'[t] = "done"

\* C28: after initialize() returns normally the tokens are loaded, the
\* current access token is not expired according to is_token_expired, and
\* the cached Authorization header is Bearer with the current access token.
C28_InitializedTokenIsFresh ==
    [][\A t \in Tasks :
          InitializeReturns(t) =>
              /\ access_token' # NoneTok /\ refresh_token' # NoneRT
              /\ ~is_token_expired(access_token'.exp, now')
              /\ headers' = Bearer(access_token')]_vars

(* ------------------------ update_meal without an id -------------------- *)
\* Where the guard of an operation suspends.
GuardPoints == {"ssl_auth", "refresh_wait", "save_open", "save_write", "load_wait"}
\* Caller t's update_meal, called with a meal without id, ends in this step.
NoIdEnds(t) ==
    kind[t] = "update_meal_noid" /\ pc'[t] # pc[t] /\ pc'[t] \notin GuardPoints

\* C29: update_meal called with a meal whose id is empty or missing sends
\* no PATCH (it never reaches _get_client or a request) and ends by raising:
\* ValueError once its token guard has passed, the guard's error otherwise.
C29_State ==
    \A t \in Tasks :
        kind[t] = "update_meal_noid" => pc[t] \in GuardPoints /\ ~req[t].sent
C29_Step ==
    \A t \in Tasks :
        /\ NoIdEnds(t) =>
              /\ pc'[t] = "raised" /\ ~req'[t].sent
              /\ err'[t] \in {"ValueError: Meal ID must be provided",
                              "AuthError: refresh", "AuthError: save"}
              /\ pc[t] = "save_write" /\ err'[t] # "AuthError: save" =>
                    err'[t] = "ValueError: Meal ID must be provided"
        /\ err'[t] = "ValueError: Meal ID must be provided" /\ err'[t] # err[t] =>
              UNCHANGED <<clientSession, clientCreated>>
C29_NoIdRaisesBeforeRequest == []C29_State /\ [][C29_Step]_vars
\* update_meal without id has raised ValueError after its guard refreshed the
\* token, and the client has sent no request of its own.
C29_Witness ==
    /\ \E t \in Tasks :
          pc[t] = "raised" /\ err[t] = "ValueError: Meal ID must be provided"
    /\ idpUsed # {} /\ clientCreated = 0

(* ------------------------- exchanges per operation --------------------- *)
\* C30: one call of initialize() or of a resource operation sends at most
\* one refresh exchange, also when the access token that exchange returned
\* is already expired.
C30_OneExchangePerCall ==
    \A t \in Tasks : kind[t] \in {"op", "init"} => refreshes[t] <= 1

(* ------------------- the document and the tokens in memory ------------- *)
\* No caller is inside an operation: no load, refresh or save in progress.
Quiescent == \A t \in Tasks : pc[t] \in Startable

\* C31: persisted-credential consistency.  Once the tokens in memory come
\* from the document or from a refresh, whenever no load, refresh or save
\* is in progress the credential document equals the in-memory pair, also
\* after a refresh whose 200 response was received and whose save failed.
C31_DocumentEqualsMemory ==
    Quiescent /\ access_token # NoneTok /\ access_token.id # SuppliedId =>
        token_file = Json(access_token, refresh_token)

(* ----------------------- the exchanged refresh token ------------------- *)
\* Caller t's refresh exchange is sent in this step.
SendsExchange(t) == pc[t] # "refresh_wait" /\ pc'[t] = "refresh_wait"

\* C32: a refresh exchange is sent only with the authority's current refresh
\* token: when it is sent, the refresh token in its body has not already
\* been exchanged by an earlier successful refresh of this client.
C32_ExchangeCarriesCurrentToken ==
    [][\A t \in Tasks :
          SendsExchange(t) => posted'[t] \notin idpUsed']_vars

(* --------------------------- parse_event is total ---------------------- *)
\* C33: event decoding is total.  Whatever the payload's type (known,
\* unknown or missing) and whichever fields it has, parse_event returns an
\* event record and never raises.
C33_ParseEventTotal ==
    call.fn = "parse_event" /\ call.out # NoEvent => call.out.kind = "return"

(* -------------------------------- restart ------------------------------ *)
\* The client as in Spec, where the process may end and start again: a new
\* PetsSeriesClient is constructed with the same arguments, kept in `call`
\* with the refresh tokens exchanged before the restart; the credential
\* document and the identity provider are what they were.
MaxRestarts == 1

InitRestart ==
    /\ Constructed
    /\ call = [fn |-> "args", at |-> access_token, rt |-> refresh_token,
               restarts |-> 0, spent |-> {}]

\* AuthManager.__init__ / PetsSeriesClient.__init__ in a new process.
Restart ==
    /\ call.fn = "args" /\ call.restarts < MaxRestarts
    /\ \A t \in Tasks : pc[t] \in {"idle", "done", "raised"}
    /\ access_token' = call.at
    /\ refresh_token' = call.rt
    /\ authSession' = NoSession /\ authCreated' = 0
    /\ clientSession' = NoSession /\ clientCreated' = 0
    /\ headers' = NoHeaders
    /\ pc' = [t \in Tasks |-> "idle"]
    /\ kind' = [t \in Tasks |-> "none"]
    /\ ctx' = [t \in Tasks |-> "none"]
    /\ posted' = [t \in Tasks |-> NoneRT]
    /\ savePair' = [t \in Tasks |-> NoPair]
    /\ req' = [t \in Tasks |-> NoReq]
    /\ resp' = [t \in Tasks |-> "none"]
    /\ err' = [t \in Tasks |-> "none"]
    /\ refreshes' = [t \in Tasks |-> 0]
    /\ retry' = [t \in Tasks |-> NoneRT]
    /\ call' = [call EXCEPT !.restarts = @ + 1, !.spent = idpUsed]
    /\ UNCHANGED <<token_file, idpVars, now, opsLeft, closeVars>>

NextRestart == Next \/ Restart

SpecRestart == InitRestart /\ [][NextRestart]_vars

\* C34: when a credential document exists, load_tokens replaces the tokens
\* given to the constructor by the document's pair, so that after a refresh
\* and a restart with the same constructor arguments the client never sends
\* a refresh token that was exchanged before the restart.
C34_RestartUsesPersistedTokens ==
    [][\A t \in Tasks :
          /\ LoadEnds(t) /\ token_file.st = "json" =>
                access_token' = token_file.at /\ refresh_token' = token_file.rt
          /\ call.fn = "args" /\ call.restarts > 0 /\ token_file.st = "json"
                /\ SendsExchange(t) =>
                posted'[t] \notin call.spent]_vars

(* ----------------------- get_events: the types argument ---------------- *)
\* The types argument is a str or, the annotation notwithstanding, a member
\* of EventType.  EventType is a plain Enum: a member is equal to no str,
\* also not to its own value.
Str(s) == [enum |-> FALSE, value |-> s]
Member(v) == [enum |-> TRUE, value |-> v]
EventTypeValues == {"motion_detected", "meal_dispensed", "meal_upcoming",
                    "food_level_low"}
\* Event.get_event_types(): list(EventType)
get_event_types == {Member(v) : v \in EventTypeValues}

TypesArguments ==
    {Str(s) : s \in EventTypeValues \cup {"none", "device_online", "bogus", ""}}
        \cup get_event_types

\* A variant of the test that lets every argument through.
types_accepted_any(types) == TRUE

\* not (types not in Event.get_event_types() and types != "none")
types_accepted(types) == types \in get_event_types \/ types = Str("none")

\* types_param: "&types={types}" unless types is "none"
NoTypesParam == [enum |-> FALSE, value |-> "no types parameter"]
types_param(types) == IF types # Str("none") THEN types ELSE NoTypesParam

\* get_events has passed its guard; the answer to its request, if it sends
\* one, has status `status` and body `body`.
InitGetEvents ==
    /\ ConstructedWith({NoPair}, {Absent})
    /\ call \in [fn : {"get_events"}, types : TypesArguments, status : Statuses,
                 body : Bodies, phase : {"start"}, requests : {<<>>},
                 out : {NoOutcome}]

\* The argument test, then the request.
GetEventsSend ==
    /\ call.fn = "get_events" /\ call.phase = "start"
    /\ call' = IF types_accepted(call.types)
               THEN [call EXCEPT !.phase = "sent",
                                 !.requests = Append(@, types_param(call.types))]
               ELSE [call EXCEPT !.phase = "done",
                                 !.out = OtherError("ValueError")]
    /\ UNCHANGED <<authVars, sessVars, idpVars, token_file, taskVars, now,
                   opsLeft, retry, closeVars>>

\* The answer arrives.
GetEventsRespond ==
    /\ call.fn = "get_events" /\ call.phase = "sent"
    /\ call' = [call EXCEPT !.phase = "done",
                            !.out = get_resource(call.status, call.body)]
    /\ UNCHANGED <<authVars, sessVars, idpVars, token_file, taskVars, now,
                   opsLeft, retry, closeVars>>

NextGetEvents == GetEventsSend \/ GetEventsRespond

SpecGetEvents == InitGetEvents /\ [][NextGetEvents]_vars

\* C35: get_events accepts 'none' and every string that is the value of a
\* known event type (motion_detected, ...): it raises no ValueError and
\* sends the events request.
C35_KnownTypeStringsAccepted ==
    /\ call.fn = "get_events" /\ call.phase # "start"
    /\ ~call.types.enum /\ call.types.value \in EventTypeValues \cup {"none"}
    => /\ call.out # OtherError("ValueError")
       /\ Len(call.requests) = 1

\* C36: get_events called with a types argument that is neither 'none' nor
\* a known event type raises ValueError and sends no request.
C36_UnknownTypeRejected ==
    /\ call.fn = "get_events" /\ call.phase # "start"
    /\ call.types.value \notin EventTypeValues \cup {"none"}
    => /\ call.phase = "done" /\ call.out = OtherError("ValueError")
       /\ call.requests = <<>>
\* get_events(types="bogus") has raised ValueError.
C36_Witness ==
    /\ call.fn = "get_events" /\ call.types = Str("bogus")
    /\ call.phase = "done" /\ call.out = OtherError("ValueError")

(* ------------------ toggles: unknown device, missing key --------------- *)
\* C37: toggle_device_power and toggle_motion_notifications return False
\* and send no PATCH when the device is not among the home's mode devices;
\* when the device is there and the toggled key is absent from its settings
\* they send one PATCH that sets that key to true.
C37_ToggleUnknownDeviceOrKey ==
    call.fn = "toggle" /\ call.getstatus = 200 =>
        /\ ~call.found =>
              /\ call.phase \in {"start", "done"} /\ call.patches = <<>>
              /\ call.phase = "done" => call.out = Return("False")
        /\ call.found /\ ToggledKey(call.op) \notin DOMAIN call.settings
              /\ (\A k \in DOMAIN call.settings : call.settings[k].has)
              /\ call.phase # "start" =>
              /\ call.phase # "read" =>
                    call.patches =
                       <<[settings |->
                            [k \in {ToggledKey(call.op)} |-> [value |-> TRUE]]]>>
              /\ call.phase = "done" => call.out = update_device_settings(call.status)
\* Both cases have happened: a toggle of a device that is not listed has
\* returned False, or a toggle of a missing key has patched it to true.
C37_Witness ==
    /\ call.fn = "toggle" /\ call.op = "toggle_motion_notifications"
    /\ call.phase = "done" /\ call.found
    /\ call.settings = [k \in {"device_active"} |-> Setting(TRUE)]
    /\ call.patches =
          <<[settings |-> [k \in {"push_notification_motion"} |-> [value |-> TRUE]]]>>

====
